---- MODULE Spec2Model ----
(***************************************************************************)
(* PackHub standalone CLI (src/main.py): the package catalog cache, the    *)
(* main() control flow, PackageInstaller.install and the recursive         *)
(* dependency resolver PackageInstaller._resolve_dependencies.             *)
(*                                                                         *)
(* A catalog (PackageDatabase.packages) is a function from the names that  *)
(* have a record to the record's dependency slots, kept as the sequence of *)
(* dep_name of Package.depends.  The version constraint of a slot and the  *)
(* version, architecture and filename of a record are read by no branch of *)
(* the modelled code and are left out.                                     *)
(***************************************************************************)
EXTENDS Naturals, Sequences, FiniteSets, TLC

VARIABLES
    pc,              \* position of the single thread of control
    command,         \* args.command
    force,           \* args.force
    package,         \* args.package (NoPackage when absent)
    cacheFile,       \* the file PACKAGES_CACHE: [status, pkgs, age]
    repos,           \* what each URL of REPOS serves: its parsed Packages file
    packages,        \* db.packages
    all_packages,    \* local of PackageDatabase.update
    repo_i,          \* index of the for loop over REPOS in update
    installed,       \* installer.installed (names reported by dpkg-query)
    stack,           \* call stack of _resolve_dependencies: frames [name, i, to_install]
    visited,         \* the visited set shared by the recursive calls
    arg,             \* the name argument of the call being entered
    ret,             \* the value returned by the call that just returned
    deps_to_install, \* local of install (line 370)
    dep_i,           \* index of the for loop over deps_to_install in install
    expanded,        \* per name: how often the loop over pkg.depends was entered
    log              \* what the run has done so far (observed effects)

vars == <<pc, command, force, package, cacheFile, repos, packages, all_packages,
          repo_i, installed, stack, visited, arg, ret, deps_to_install, dep_i,
          expanded, log>>

argv == <<command, force, package>>
dbVars == <<cacheFile, repos, packages, all_packages, repo_i>>

(***************************************************************************)
(* Bounds of the model                                                     *)
(***************************************************************************)
\* total number of dependency slots in a catalog of the resolver's input family
MaxEdges == 3
\* depth of Python's call stack at which a further call raises RecursionError
RecursionLimit == 6

(***************************************************************************)
(* Program constants                                                       *)
(***************************************************************************)
FORBIDDEN_PACKAGES ==
    {"libc6", "libc-bin", "libgcc-s1", "dpkg", "apt", "bash",
     "coreutils", "systemd", "init", "base-files", "ubuntu-minimal"}

\* needs_update: age_hours > 24
CACHE_TTL_HOURS == 24

REPOS == <<"main", "universe">>

(***************************************************************************)
(* Universe of names used in catalogs and on the command line              *)
(***************************************************************************)
\* names that may have a record, and names a dependency slot may hold
PkgNames == {"a", "b", "c"}
Names == PkgNames \cup {"bash"}
NoPackage == "<none>"
InstalledChoices == SUBSET {"b", "ct64"}

Range(s) == {s[k] : k \in 1..Len(s)}

RECURSIVE Catalogs(_, _)
\* every catalog over the names in S with at most budget dependency slots
Catalogs(S, budget) ==
    IF S = {} THEN {<<>>}
    ELSE LET p == CHOOSE x \in S : TRUE
             rest == S \ {p}
         IN  Catalogs(rest, budget)
             \cup UNION { { (p :> d) @@ c : c \in Catalogs(rest, budget - n),
                                            d \in [1..n -> Names] }
                          : n \in 0..budget }

RECURSIVE ReachableFrom(_, _)
\* the names that the dependency slots of catalog c lead to from the names in S
ReachableFrom(c, S) ==
    LET more == S \cup UNION {Range(c[n]) : n \in S \cap DOMAIN c}
    IN  IF more = S THEN S ELSE ReachableFrom(c, more)

\* a record that no chain of slots from the root leads to is never looked up by
\* the resolver: the input family keeps the catalogs without such records
ResolverInputs ==
    {in \in [catalog : Catalogs(PkgNames, MaxEdges), root : PkgNames, installed : InstalledChoices] :
        DOMAIN in.catalog \subseteq ReachableFrom(in.catalog, {in.root})}

\* nothing done yet.  outcome: how the run ended; net: a requests.get was issued;
\* installer: names given to dpkg -i; handed: names given to _install_single;
\* cacheWritten: PACKAGES_CACHE was opened for writing; loadFailed: the
\* load_from_cache of main returned False; source, sourceAge: where db.packages
\* came from ("cache" or "fetch") and how old the cache file was when it was read;
\* fetched: a repository was downloaded and parsed; prior: the catalog the cache
\* file held when the loop over REPOS began (empty when it held none)
NoLog == [outcome |-> "running", net |-> FALSE, installer |-> {}, handed |-> {},
          cacheWritten |-> FALSE, loadFailed |-> FALSE, source |-> "none",
          sourceAge |-> 0, fetched |-> FALSE, prior |-> <<>>]

(***************************************************************************)
(* PackageDatabase.get_package                                             *)
(***************************************************************************)
HasRecord(name) == name \in DOMAIN packages
Depends(name) == packages[name]

(***************************************************************************)
(* _resolve_dependencies: the tests of one dependency slot                 *)
(***************************************************************************)
AlreadyVisitedNever(name) == FALSE
AlreadyVisited(name) == name \in visited

SlotForbiddenNever(dep_name) == FALSE
SlotForbidden(dep_name) == dep_name \in FORBIDDEN_PACKAGES

SlotInstalled(dep_name) == dep_name \in installed

SlotT64Never(dep_name) == FALSE
SlotT64(dep_name) == (dep_name \o "t64") \in installed

RECURSIVE ExtendUnique(_, _)
\* for sub_dep in sub_deps: if sub_dep not in to_install: to_install.append(sub_dep)
ExtendUnique(to_install, sub_deps) ==
    IF sub_deps = <<>> THEN to_install
    ELSE ExtendUnique(IF Head(sub_deps) \in Range(to_install)
                      THEN to_install
                      ELSE Append(to_install, Head(sub_deps)),
                      Tail(sub_deps))

AfterCallNameFirst(to_install, sub_deps, dep_name) ==
    ExtendUnique(ExtendUnique(to_install, <<dep_name>>), sub_deps)
AfterCallDropUnknown(to_install, sub_deps, dep_name) ==
    IF HasRecord(dep_name)
    THEN ExtendUnique(ExtendUnique(to_install, sub_deps), <<dep_name>>)
    ELSE ExtendUnique(to_install, sub_deps)
\* lines 427-432: the sub-dependencies first, then the slot's own name
AfterCall(to_install, sub_deps, dep_name) ==
    ExtendUnique(ExtendUnique(to_install, sub_deps), <<dep_name>>)

Top == stack[Len(stack)]
TopDeps == Depends(Top.name)
InLoop == pc = "rd_loop" /\ Top.i <= Len(TopDeps)
CurDep == TopDeps[Top.i]
NextSlot == [stack EXCEPT ![Len(stack)].i = @ + 1]

(***************************************************************************)
(* _resolve_dependencies, one step at a time                               *)
(***************************************************************************)
\* if name in visited: return []
ResolveVisited ==
    /\ pc = "rd_call"
    /\ AlreadyVisited(arg)
    /\ ret' = <<>>
    /\ pc' = "rd_ret"
    /\ UNCHANGED <<argv, dbVars, installed, stack, visited, arg, deps_to_install, dep_i,
                   expanded, log>>

\* visited.add(name); pkg = get_package(name); if not pkg: return []
ResolveUnknown ==
    /\ pc = "rd_call"
    /\ ~AlreadyVisited(arg)
    /\ ~HasRecord(arg)
    /\ visited' = visited \cup {arg}
    /\ ret' = <<>>
    /\ pc' = "rd_ret"
    /\ UNCHANGED <<argv, dbVars, installed, stack, arg, deps_to_install, dep_i,
                   expanded, log>>

\* visited.add(name); to_install = []; enter the loop over pkg.depends
ResolveExpand ==
    /\ pc = "rd_call"
    /\ ~AlreadyVisited(arg)
    /\ HasRecord(arg)
    /\ visited' = visited \cup {arg}
    /\ stack' = Append(stack, [name |-> arg, i |-> 1, to_install |-> <<>>])
    /\ expanded' = [expanded EXCEPT ![arg] = @ + 1]
    /\ pc' = "rd_loop"
    /\ UNCHANGED <<argv, dbVars, installed, arg, ret, deps_to_install, dep_i, log>>

\* if dep_name in FORBIDDEN_PACKAGES: continue
SkipForbidden ==
    /\ InLoop
    /\ SlotForbidden(CurDep)
    /\ stack' = NextSlot
    /\ UNCHANGED <<pc, argv, dbVars, installed, visited, arg, ret, deps_to_install,
                   dep_i, expanded, log>>

\* if dep_name in self.installed: continue
SkipInstalled ==
    /\ InLoop
    /\ ~SlotForbidden(CurDep)
    /\ SlotInstalled(CurDep)
    /\ stack' = NextSlot
    /\ UNCHANGED <<pc, argv, dbVars, installed, visited, arg, ret, deps_to_install,
                   dep_i, expanded, log>>

\* if dep_name + 't64' in self.installed: continue
SkipT64 ==
    /\ InLoop
    /\ ~SlotForbidden(CurDep)
    /\ ~SlotInstalled(CurDep)
    /\ SlotT64(CurDep)
    /\ stack' = NextSlot
    /\ UNCHANGED <<pc, argv, dbVars, installed, visited, arg, ret, deps_to_install,
                   dep_i, expanded, log>>

\* sub_deps = self._resolve_dependencies(dep_name, visited); a call deeper than
\* the interpreter allows raises RecursionError, which main() catches
Recurse ==
    /\ InLoop
    /\ ~SlotForbidden(CurDep)
    /\ ~SlotInstalled(CurDep)
    /\ ~SlotT64(CurDep)
    /\ IF Len(stack) < RecursionLimit
       THEN /\ arg' = CurDep
            /\ pc' = "rd_call"
            /\ UNCHANGED <<stack, log>>
       ELSE /\ stack' = <<>>
            /\ pc' = "done"
            /\ log' = [log EXCEPT !.outcome = "error"]
            /\ UNCHANGED arg
    /\ UNCHANGED <<argv, dbVars, installed, visited, ret, deps_to_install, dep_i,
                   expanded>>

\* the loop over pkg.depends is exhausted: return to_install
LoopEnd ==
    /\ pc = "rd_loop"
    /\ Top.i > Len(TopDeps)
    /\ ret' = Top.to_install
    /\ stack' = SubSeq(stack, 1, Len(stack) - 1)
    /\ pc' = "rd_ret"
    /\ UNCHANGED <<argv, dbVars, installed, visited, arg, deps_to_install, dep_i,
                   expanded, log>>

\* back in the caller's loop body with sub_deps: lines 427-432, then the next slot
MergeReturn ==
    /\ pc = "rd_ret"
    /\ stack # <<>>
    /\ stack' = [stack EXCEPT ![Len(stack)] =
                    [name |-> Top.name,
                     i |-> Top.i + 1,
                     to_install |-> AfterCall(Top.to_install, ret, CurDep)]]
    /\ pc' = "rd_loop"
    /\ UNCHANGED <<argv, dbVars, installed, visited, arg, ret, deps_to_install, dep_i,
                   expanded, log>>

\* the outermost call returns to install: deps_to_install = ...
ResolveDone ==
    /\ pc = "rd_ret"
    /\ stack = <<>>
    /\ deps_to_install' = ret
    /\ pc' = "install_plan"
    /\ UNCHANGED <<argv, dbVars, installed, stack, visited, arg, ret, dep_i, expanded,
                   log>>

ResolveNext ==
    \/ ResolveVisited
    \/ ResolveUnknown
    \/ ResolveExpand
    \/ SkipForbidden
    \/ SkipInstalled
    \/ SkipT64
    \/ Recurse
    \/ LoopEnd
    \/ MergeReturn
    \/ ResolveDone

(***************************************************************************)
(* PackageDatabase: needs_update, load_from_cache, update, _save_to_cache  *)
(***************************************************************************)
\* not PACKAGES_CACHE.exists(), or age_hours > 24
needs_update ==
    cacheFile.status = "missing" \/ cacheFile.age > CACHE_TTL_HOURS

\* pickle.load succeeds only on a file that holds a complete dump
Loadable == cacheFile.status = "valid"

\* update is called with force=args.force by the update command only
UpdateForce == command = "update" /\ force

\* where update returns to in main
AfterUpdate == IF command = "update" THEN "done" ELSE "construct"

\* main, command update: db.update(force=args.force)
MainUpdate ==
    /\ pc = "main"
    /\ command = "update"
    /\ pc' = "update"
    /\ UNCHANGED <<argv, dbVars, installed, stack, visited, arg, ret, deps_to_install,
                   dep_i, expanded, log>>

\* main, other commands: db.load_from_cache() returns True
MainLoadOk ==
    /\ pc = "main"
    /\ command # "update"
    /\ Loadable
    /\ packages' = cacheFile.pkgs
    /\ log' = [log EXCEPT !.source = "cache", !.sourceAge = cacheFile.age]
    /\ pc' = "construct"
    /\ UNCHANGED <<argv, cacheFile, repos, all_packages, repo_i, installed, stack,
                   visited, arg, ret, deps_to_install, dep_i, expanded>>

\* main, other commands: db.load_from_cache() returns False (no file, or the
\* exception of pickle.load is caught), so db.update() is called
MainLoadFail ==
    /\ pc = "main"
    /\ command # "update"
    /\ ~Loadable
    /\ log' = [log EXCEPT !.loadFailed = TRUE]
    /\ pc' = "update"
    /\ UNCHANGED <<argv, dbVars, installed, stack, visited, arg, ret, deps_to_install,
                   dep_i, expanded>>

\* update: not force and not needs_update(): load_from_cache(), whose result is
\* not looked at, and return
UpdateUpToDate ==
    /\ pc = "update"
    /\ ~UpdateForce
    /\ ~needs_update
    /\ packages' = IF Loadable THEN cacheFile.pkgs ELSE packages
    /\ log' = [log EXCEPT !.source = IF Loadable THEN "cache" ELSE @,
                          !.sourceAge = IF Loadable THEN cacheFile.age ELSE @,
                          !.outcome = IF command = "update" THEN "ok" ELSE @]
    /\ pc' = AfterUpdate
    /\ UNCHANGED <<argv, cacheFile, repos, all_packages, repo_i, installed, stack,
                   visited, arg, ret, deps_to_install, dep_i, expanded>>

\* update: all_packages = {} and the loop over REPOS starts
UpdateBegin ==
    /\ pc = "update"
    /\ UpdateForce \/ needs_update
    /\ all_packages' = <<>>
    /\ repo_i' = 1
    /\ pc' = "fetch"
    /\ log' = [log EXCEPT !.prior = IF Loadable THEN cacheFile.pkgs ELSE <<>>]
    /\ UNCHANGED <<argv, cacheFile, repos, packages, installed, stack, visited, arg,
                   ret, deps_to_install, dep_i, expanded>>

\* one repository downloaded and parsed: all_packages.update(packages)
FetchOk ==
    /\ pc = "fetch"
    /\ repo_i <= Len(REPOS)
    /\ all_packages' = repos[REPOS[repo_i]] @@ all_packages
    /\ repo_i' = repo_i + 1
    /\ log' = [log EXCEPT !.net = TRUE, !.fetched = TRUE]
    /\ UNCHANGED <<pc, argv, cacheFile, repos, packages, installed, stack, visited,
                   arg, ret, deps_to_install, dep_i, expanded>>

\* the download, the decompression or the parse raises: continue
FetchFail ==
    /\ pc = "fetch"
    /\ repo_i <= Len(REPOS)
    /\ repo_i' = repo_i + 1
    /\ log' = [log EXCEPT !.net = TRUE]
    /\ UNCHANGED <<pc, argv, cacheFile, repos, packages, all_packages, installed,
                   stack, visited, arg, ret, deps_to_install, dep_i, expanded>>

\* after the loop: self.packages = all_packages, then _save_to_cache is entered
UpdateStore ==
    /\ pc = "fetch"
    /\ repo_i > Len(REPOS)
    /\ packages' = all_packages
    /\ log' = [log EXCEPT !.source = "fetch", !.sourceAge = 0]
    /\ pc' = "save"
    /\ UNCHANGED <<argv, cacheFile, repos, all_packages, repo_i, installed, stack,
                   visited, arg, ret, deps_to_install, dep_i, expanded>>

\* _save_to_cache: open(PACKAGES_CACHE, 'wb') truncates the file in place
SaveOpen ==
    /\ pc = "save"
    /\ cacheFile' = [status |-> "partial", pkgs |-> <<>>, age |-> 0]
    /\ log' = [log EXCEPT !.cacheWritten = TRUE]
    /\ pc' = "dump"
    /\ UNCHANGED <<argv, repos, packages, all_packages, repo_i, installed, stack,
                   visited, arg, ret, deps_to_install, dep_i, expanded>>

\* pickle.dump(self.packages, f) completes and the file is closed
SaveDump ==
    /\ pc = "dump"
    /\ cacheFile' = [status |-> "valid", pkgs |-> packages, age |-> 0]
    /\ pc' = AfterUpdate
    /\ log' = [log EXCEPT !.outcome = IF command = "update" THEN "ok" ELSE @]
    /\ UNCHANGED <<argv, repos, packages, all_packages, repo_i, installed, stack,
                   visited, arg, ret, deps_to_install, dep_i, expanded>>

\* the write is cut short (KeyboardInterrupt, or an OSError of the write): main
\* catches it and the run ends, the file left as open() and the write made it
SaveInterrupted ==
    /\ pc = "dump"
    /\ pc' = "done"
    /\ log' = [log EXCEPT !.outcome = "error"]
    /\ UNCHANGED <<argv, dbVars, installed, stack, visited, arg, ret, deps_to_install,
                   dep_i, expanded>>

(***************************************************************************)
(* main after the database is there: PackageInstaller(db) and the command  *)
(***************************************************************************)
\* installer = PackageInstaller(db), then the branch on args.command; without
\* a package name every command prints an error and returns
Dispatch ==
    /\ pc = "construct"
    /\ IF package = NoPackage
       THEN /\ pc' = "done"
            /\ log' = [log EXCEPT !.outcome = "usage"]
       ELSE /\ pc' = command
            /\ UNCHANGED log
    /\ UNCHANGED <<argv, dbVars, installed, stack, visited, arg, ret, deps_to_install,
                   dep_i, expanded>>

\* installer.search(args.package)
Search ==
    /\ pc = "search"
    /\ pc' = "done"
    /\ log' = [log EXCEPT !.outcome = "ok"]
    /\ UNCHANGED <<argv, dbVars, installed, stack, visited, arg, ret, deps_to_install,
                   dep_i, expanded>>

\* installer.info(args.package)
Info ==
    /\ pc = "info"
    /\ pc' = "done"
    /\ log' = [log EXCEPT !.outcome = IF HasRecord(package) THEN "ok" ELSE "notfound"]
    /\ UNCHANGED <<argv, dbVars, installed, stack, visited, arg, ret, deps_to_install,
                   dep_i, expanded>>

(***************************************************************************)
(* PackageInstaller.install and _install_single                            *)
(***************************************************************************)
\* if name in FORBIDDEN_PACKAGES: return False
InstallRefuse ==
    /\ pc = "install"
    /\ package \in FORBIDDEN_PACKAGES
    /\ pc' = "done"
    /\ log' = [log EXCEPT !.outcome = "refused"]
    /\ UNCHANGED <<argv, dbVars, installed, stack, visited, arg, ret, deps_to_install,
                   dep_i, expanded>>

\* pkg = get_package(name); if not pkg: return False
InstallNotFound ==
    /\ pc = "install"
    /\ package \notin FORBIDDEN_PACKAGES
    /\ ~HasRecord(package)
    /\ pc' = "done"
    /\ log' = [log EXCEPT !.outcome = "notfound"]
    /\ UNCHANGED <<argv, dbVars, installed, stack, visited, arg, ret, deps_to_install,
                   dep_i, expanded>>

\* name in self.installed and the answer to "Reinstall anyway?" is not yes
InstallKeep ==
    /\ pc = "install"
    /\ package \notin FORBIDDEN_PACKAGES
    /\ HasRecord(package)
    /\ package \in installed
    /\ pc' = "done"
    /\ log' = [log EXCEPT !.outcome = "kept"]
    /\ UNCHANGED <<argv, dbVars, installed, stack, visited, arg, ret, deps_to_install,
                   dep_i, expanded>>

\* not installed, or the answer is yes: _resolve_dependencies(name) is called
InstallAnalyze ==
    /\ pc = "install"
    /\ package \notin FORBIDDEN_PACKAGES
    /\ HasRecord(package)
    /\ arg' = package
    /\ visited' = {}
    /\ stack' = <<>>
    /\ pc' = "rd_call"
    /\ UNCHANGED <<argv, dbVars, installed, ret, deps_to_install, dep_i, expanded, log>>

\* the answer to "Continue with installation?" / "Install name?" is not yes
PlanDeclined ==
    /\ pc = "install_plan"
    /\ pc' = "done"
    /\ log' = [log EXCEPT !.outcome = "cancelled"]
    /\ UNCHANGED <<argv, dbVars, installed, stack, visited, arg, ret, deps_to_install,
                   dep_i, expanded>>

\* the answer is yes: the loop over deps_to_install starts
PlanAccepted ==
    /\ pc = "install_plan"
    /\ dep_i' = 1
    /\ pc' = "single"
    /\ UNCHANGED <<argv, dbVars, installed, stack, visited, arg, ret, deps_to_install,
                   expanded, log>>

\* the name _install_single is called with: the dependencies in order, then the
\* main package
SingleName ==
    IF dep_i <= Len(deps_to_install) THEN deps_to_install[dep_i] ELSE package

\* where install goes on after _install_single returned: the next dependency
\* (a failed one is only warned about), or the end of install
SingleReturns ==
    IF dep_i <= Len(deps_to_install)
    THEN dep_i' = dep_i + 1 /\ pc' = "single"
    ELSE dep_i' = dep_i /\ pc' = "done"

\* install returns what _install_single returned for the main package
SingleOutcome(ok) ==
    IF dep_i <= Len(deps_to_install) THEN log.outcome
    ELSE IF ok THEN "ok" ELSE "failed"

\* _install_single: get_package(name) is None: return False
SingleNotFound ==
    /\ pc = "single"
    /\ ~HasRecord(SingleName)
    /\ SingleReturns
    /\ log' = [log EXCEPT !.handed = @ \cup {SingleName}, !.outcome = SingleOutcome(FALSE)]
    /\ UNCHANGED <<argv, dbVars, installed, stack, visited, arg, ret, deps_to_install,
                   expanded>>

\* _install_single: the download raises: return False
SingleDownloadFails ==
    /\ pc = "single"
    /\ HasRecord(SingleName)
    /\ SingleReturns
    /\ log' = [log EXCEPT !.handed = @ \cup {SingleName}, !.net = TRUE,
                          !.outcome = SingleOutcome(FALSE)]
    /\ UNCHANGED <<argv, dbVars, installed, stack, visited, arg, ret, deps_to_install,
                   expanded>>

\* _install_single: dpkg -i returns 0: self.installed is read again, return True
SingleInstalled ==
    /\ pc = "single"
    /\ HasRecord(SingleName)
    /\ SingleReturns
    /\ installed' = installed \cup {SingleName}
    /\ log' = [log EXCEPT !.handed = @ \cup {SingleName}, !.net = TRUE,
                          !.installer = @ \cup {SingleName}, !.outcome = SingleOutcome(TRUE)]
    /\ UNCHANGED <<argv, dbVars, stack, visited, arg, ret, deps_to_install, expanded>>

\* _install_single: dpkg -i fails: return False
SingleDpkgFails ==
    /\ pc = "single"
    /\ HasRecord(SingleName)
    /\ SingleReturns
    /\ log' = [log EXCEPT !.handed = @ \cup {SingleName}, !.net = TRUE,
                          !.installer = @ \cup {SingleName}, !.outcome = SingleOutcome(FALSE)]
    /\ UNCHANGED <<argv, dbVars, installed, stack, visited, arg, ret, deps_to_install,
                   expanded>>

(***************************************************************************)
(* The resolver on every input of the bounded family: the state at line    *)
(* 370, where install calls _resolve_dependencies(name) with a fresh       *)
(* visited set.                                                            *)
(***************************************************************************)

ResolveInit ==
    /\ \E in \in ResolverInputs :
          /\ packages = in.catalog
          /\ installed = in.installed
          /\ package = in.root
    /\ arg = package
    /\ pc = "rd_call"
    /\ command = "install"
    /\ force = FALSE
    /\ cacheFile = [status |-> "valid", pkgs |-> packages, age |-> 0]
    /\ repos = [r \in Range(REPOS) |-> <<>>]
    /\ all_packages = <<>>
    /\ repo_i = 1
    /\ stack = <<>>
    /\ visited = {}
    /\ ret = <<>>
    /\ deps_to_install = <<>>
    /\ dep_i = 1
    /\ expanded = [n \in Names |-> 0]
    /\ log = [NoLog EXCEPT !.source = "cache"]

ResolveSpec == ResolveInit /\ [][ResolveNext]_vars

\* the interpreter runs the single thread until it returns
FairResolveSpec == ResolveSpec /\ WF_vars(ResolveNext)

(***************************************************************************)
(* The whole program: one run of main() from its first line                *)
(***************************************************************************)
ChainCatalog == ("a" :> <<"b">>) @@ ("b" :> <<"c">>) @@ ("c" :> <<>>)
CycleCatalog == ("a" :> <<"b">>) @@ ("b" :> <<"a">>)
\* a forbidden slot whose name has a record, and a slot whose name has none
GuardedCatalog == ("a" :> <<"bash", "b", "c">>) @@ ("bash" :> <<"c">>) @@ ("b" :> <<>>)
SampleCatalogs == {ChainCatalog, CycleCatalog, GuardedCatalog}

\* age in hours of the cache file when the run starts
CacheAges == {0, CACHE_TTL_HOURS, CACHE_TTL_HOURS + 1}

\* the file is absent, or holds bytes pickle.load rejects, or a complete dump
CacheFiles ==
    {[status |-> "missing", pkgs |-> <<>>, age |-> 0]}
    \cup [status : {"corrupt"}, pkgs : {<<>>}, age : CacheAges]
    \cup [status : {"valid"}, pkgs : SampleCatalogs, age : CacheAges]

CommandLines ==
    [command : {"update"}, force : BOOLEAN, package : {NoPackage}]
    \cup [command : {"search", "info", "install"}, force : {FALSE},
          package : {"a", "b", "bash", NoPackage}]

Init ==
    /\ \E cl \in CommandLines :
          /\ command = cl.command
          /\ force = cl.force
          /\ package = cl.package
    /\ cacheFile \in CacheFiles
    /\ repos \in [Range(REPOS) -> SampleCatalogs \cup {<<>>}]
    /\ installed \in InstalledChoices
    /\ packages = <<>>
    /\ all_packages = <<>>
    /\ repo_i = 1
    /\ pc = "main"
    /\ arg = NoPackage
    /\ stack = <<>>
    /\ visited = {}
    /\ ret = <<>>
    /\ deps_to_install = <<>>
    /\ dep_i = 1
    /\ expanded = [n \in Names |-> 0]
    /\ log = NoLog

Next ==
    \/ MainUpdate
    \/ MainLoadOk
    \/ MainLoadFail
    \/ UpdateUpToDate
    \/ UpdateBegin
    \/ FetchOk
    \/ FetchFail
    \/ UpdateStore
    \/ SaveOpen
    \/ SaveDump
    \/ SaveInterrupted
    \/ Dispatch
    \/ Search
    \/ Info
    \/ InstallRefuse
    \/ InstallNotFound
    \/ InstallKeep
    \/ InstallAnalyze
    \/ ResolveNext
    \/ PlanDeclined
    \/ PlanAccepted
    \/ SingleNotFound
    \/ SingleDownloadFails
    \/ SingleInstalled
    \/ SingleDpkgFails

Spec == Init /\ [][Next]_vars

(***************************************************************************)
(* Properties of _resolve_dependencies                                     *)
(***************************************************************************)
\* position of name x in a list without repetition
Pos(list, x) == CHOOSE k \in 1..Len(list) : list[k] = x

\* name n has a record and a chain of dependency slots leads from n back to n
OnCycle(n) == HasRecord(n) /\ n \in ReachableFrom(packages, Range(packages[n]))

\* the slot tests find dep_name satisfied by the installed set
Satisfied(dep_name) == dep_name \in installed \/ (dep_name \o "t64") \in installed

\* the to_install lists of the calls still running
FrameLists == {stack[k].to_install : k \in 1..Len(stack)}

Returned == pc = "install_plan"

\* C1: no list returned by _resolve_dependencies, by the outermost call or by a
\* recursive one, holds a name of FORBIDDEN_PACKAGES.
C1_NoForbiddenReturned ==
    /\ pc \in {"rd_ret", "install_plan"} => Range(ret) \cap FORBIDDEN_PACKAGES = {}
    /\ Returned => Range(deps_to_install) \cap FORBIDDEN_PACKAGES = {}

\* C1 witness: the call returned a non-empty list although a package below the
\* root, expanded during the call, has a forbidden name in one of its slots.
C1_Witness ==
    /\ Returned
    /\ deps_to_install # <<>>
    /\ \E n \in visited \ {package} :
          HasRecord(n) /\ Range(packages[n]) \cap FORBIDDEN_PACKAGES # {}

\* C2 (as claimed): the root name is never in the list returned for it.
C2_RootNeverReturned ==
    Returned => package \notin Range(deps_to_install)

\* C3 (as claimed): in the returned list every dependency of a listed name that
\* is listed too stands before that name.
C3_DependencyFirst ==
    Returned =>
        \A n \in Range(deps_to_install) \cap DOMAIN packages :
            \A d \in Range(packages[n]) \cap Range(deps_to_install) :
                Pos(deps_to_install, d) < Pos(deps_to_install, n)

\* C3 (amended): the same, for the listed names that lie on no dependency cycle.
C3_DependencyFirstOffCycles ==
    Returned =>
        \A n \in Range(deps_to_install) \cap DOMAIN packages :
            ~OnCycle(n) =>
                \A d \in Range(packages[n]) \cap Range(deps_to_install) :
                    Pos(deps_to_install, d) < Pos(deps_to_install, n)

\* C3 witness: a listed name off every cycle has a listed dependency, in a
\* catalog that does hold a cycle among the names the call went through.
C3_Witness ==
    /\ Returned
    /\ \E n \in Range(deps_to_install) \cap DOMAIN packages :
          /\ ~OnCycle(n)
          /\ Range(packages[n]) \cap Range(deps_to_install) # {}
    /\ \E m \in visited : OnCycle(m)

\* C4 (as claimed): a name without a record is not in the returned list.
C4_UnknownOmitted ==
    Returned => Range(deps_to_install) \subseteq DOMAIN packages

\* C4 (amended): a dependency name without a record that the call reached is
\* never expanded and raises no error, but it is in the returned list.
C4_UnknownListedUnexpanded ==
    Returned =>
        /\ log.outcome # "error"
        /\ \A m \in visited \ ({package} \cup DOMAIN packages) :
              m \in Range(deps_to_install) /\ expanded[m] = 0

\* C4 witness: the call returned after reaching a dependency without a record.
C4_Witness ==
    /\ Returned
    /\ visited \ ({package} \cup DOMAIN packages) # {}

\* C5: a name that is installed, or whose t64 variant is installed, is in no
\* list the resolver builds or returns, and unless it is the root itself it is
\* neither marked visited nor expanded.
C5_SatisfiedSlotPruned ==
    \A y \in Names :
        Satisfied(y) =>
            /\ y \notin Range(ret)
            /\ y \notin Range(deps_to_install)
            /\ \A l \in FrameLists : y \notin Range(l)
            /\ y # package => y \notin visited /\ expanded[y] = 0

\* C5 witness: the call returned after meeting, in an expanded package, a slot
\* satisfied only by the t64 variant, whose own record has dependency slots.
C5_Witness ==
    /\ Returned
    /\ \E n \in visited \cap DOMAIN packages :
          \E y \in Range(packages[n]) :
              /\ y \notin installed
              /\ (y \o "t64") \in installed
              /\ y # package
              /\ HasRecord(y)
              /\ packages[y] # <<>>

\* C9: every call of _resolve_dependencies returns, and no name is expanded
\* more than once during it.
C9_TerminatesExpandingOnce ==
    /\ <>Returned
    /\ [](\A n \in Names : expanded[n] <= 1)

\* C9 witness: the call returned after going through a package that depends on
\* itself and through a cycle of two or more packages.
C9_Witness ==
    /\ Returned
    /\ \E n \in visited \cap DOMAIN packages : n \in Range(packages[n])
    /\ \E n \in visited \cap DOMAIN packages : OnCycle(n) /\ n \notin Range(packages[n])

(***************************************************************************)
(* Properties of a whole run                                               *)
(***************************************************************************)
\* the resolver is running or has just returned
Resolving == pc \in {"rd_call", "rd_loop", "rd_ret", "install_plan"}

\* the next step of search, info or install reads db.packages
UsesCatalog ==
    \/ pc \in {"search", "info"}
    \/ pc = "install" /\ package \notin FORBIDDEN_PACKAGES

\* C6 (as claimed): when install refuses a forbidden name the run has issued no
\* network request, invoked no installer and not written the cache file.
C6_RefusalWithoutSideEffect ==
    log.outcome = "refused" =>
        /\ ~log.net
        /\ log.installer = {}
        /\ ~log.cacheWritten

\* C7 (as claimed): when the load_from_cache of main failed, the catalog that
\* search, info or install reads was fetched and parsed afresh in this run.
C7_LoadFailureRefetches ==
    UsesCatalog /\ log.loadFailed => log.source = "fetch"

\* C8 (as claimed): a cache file that holds a complete catalog holds a complete
\* catalog after every step, _save_to_cache's included.
C8_SaveIsAtomic ==
    [][cacheFile.status = "valid" => cacheFile'.status = "valid"]_vars

\* C10 (as claimed): the resolver never runs on a catalog that was loaded from
\* a cache file older than the TTL.
C10_NoResolutionOnStaleCache ==
    Resolving => ~(log.source = "cache" /\ log.sourceAge > CACHE_TTL_HOURS)

\* update() has returned from the branch that loops over REPOS
UpdateReturned ==
    /\ log.source = "fetch"
    /\ pc \notin {"save", "dump"}
    /\ log.outcome # "error"

\* C11 (as claimed): after update() returns from a refresh in which the fetch of
\* every source failed, a cache file that held a non-empty catalog before the
\* refresh still holds that catalog.
C11_FailedRefreshKeepsCache ==
    UpdateReturned /\ ~log.fetched /\ log.prior # <<>> =>
        cacheFile.status = "valid" /\ cacheFile.pkgs = log.prior

====
